---- MODULE Spec2Model ----
(***************************************************************************)
(* A model of clang_callgraph/__init__.py: the aggregation of call         *)
(* expressions into CALLGRAPH / REFGRAPH / FULLNAMES (show_info), the      *)
(* exclusion policy (is_excluded), the four buffered traversals            *)
(* (print_calls, print_refs, filter_calls, ignore_calls) and the query     *)
(* loop (ask_and_print_callgraph).                                         *)
(*                                                                         *)
(* Strings are sequences of one-character strings, so that startswith and  *)
(* the substring test `kw in name` are computed, not assumed.              *)
(***************************************************************************)
EXTENDS Integers, Sequences, FiniteSets, TLC

VARIABLES
  CALLGRAPH,      \* caller pretty name -> sequence of callee cursors
  REFGRAPH,       \* callee pretty name -> sequence of caller pretty names
  FULLNAMES,      \* qualified name -> set of pretty names
  nfiles,         \* compile commands processed so far by analyze_source_files
  diag,           \* outcome of the last index.parse
  sites,          \* history: the call sites recorded so far, <<caller name, callee cursor>>
  added,          \* history: call sites recorded by the last file
  g_print_depth,
  g_filter_set,
  g_ignore_set,
  g_buffer,
  pc,             \* "analyze" | "ask" | "run"
  mode,           \* the traversal running: "calls" | "refs" | "filter" | "ignore" | "none"
  stack,          \* the activation records of the running traversal
  so_far,
  call_stack,
  out,            \* what the current (or last) command printed to the user
  status,         \* how the last command ended: "none" | "ok" | "fault"
  expanded,       \* history: keys whose adjacency list the traversal iterated
  rendered,       \* history: lines the current command handed to buffer_append
  deepest,        \* history: greatest depth a traversal function was entered with
  skipped,        \* history: cursors ignore_calls skipped in the current query
  excl,           \* the last call of is_excluded: its arguments and its result
  cmd,            \* the command being run, or the last one run: [op, args]
  blocks,         \* history: the path from the root at every filter match met
  explored,       \* history: the edges <<key, callee>> the traversal iterated over
  decl            \* the declaration behind every cursor, as libclang reports it

vars == <<CALLGRAPH, REFGRAPH, FULLNAMES, nfiles, diag, sites, added,
          g_print_depth, g_filter_set, g_ignore_set, g_buffer, pc, mode,
          stack, so_far, call_stack, out, status, expanded, rendered,
          deepest, skipped, excl, cmd, blocks, explored, decl>>

storeVars == <<CALLGRAPH, REFGRAPH, FULLNAMES>>
aggVars   == <<nfiles, diag, sites, added>>
cfgVars   == <<g_print_depth, g_filter_set, g_ignore_set>>
runVars   == <<g_buffer, mode, stack, so_far, call_stack, out, status,
               expanded, rendered, deepest, skipped, cmd, blocks, explored>>

----------------------------------------------------------------------------
(* Bounds of the model *)

MaxFiles == 2      \* compile commands analysed in one run
ChainLen == 17     \* functions of the call chain c_a -> c_b -> ...
MaxArgs  == 2      \* keywords given to one @ command

(* Program constants *)

MaxPrintDepth == 15       \* g_max_print_depth
DefaultPrintDepth == 15   \* g_print_depth

----------------------------------------------------------------------------
(* Strings *)

startswith(s, p) ==
  /\ Len(p) <= Len(s)
  /\ SubSeq(s, 1, Len(p)) = p

\* Python's `kw in s` on strings
contains(s, kw) ==
  \E i \in 1..(Len(s) - Len(kw) + 1) : SubSeq(s, i, i + Len(kw) - 1) = kw

Chr == <<"a", "b", "c", "d", "e", "f", "g", "h", "i", "j", "k", "l", "m",
         "n", "o", "p", "q", "r", "s", "t", "u", "v", "w", "x", "y", "z">>

Parens == <<"(", ")">>
Colons == <<":", ":">>

SeqToSet(s) == {s[i] : i \in 1..Len(s)}

Front(s) == SubSeq(s, 1, Len(s) - 1)

\* sequences over S of length at most n
RECURSIVE SeqsUpTo(_, _)
SeqsUpTo(S, n) ==
  IF n = 0 THEN {<<>>}
  ELSE LET T == SeqsUpTo(S, n - 1)
       IN  T \cup {Append(t, x) : t \in {u \in T : Len(u) = n - 1}, x \in S}

RECURSIVE Flatten(_)
Flatten(ss) == IF ss = <<>> THEN <<>> ELSE ss[1] \o Flatten(Tail(ss))

----------------------------------------------------------------------------
(* Cursors.  A cursor is identified by a number (0 is None); cursors of the *)
(* same function obtained from two translation units are different cursors  *)
(* with the same names.  `file` is <<>> when extent.start.file is None.     *)

None == 0

D(kind, spelling, displayname, parent, file, virt, pure) ==
  [kind |-> kind, spelling |-> spelling, displayname |-> displayname,
   semantic_parent |-> parent, file |-> file, virtual |-> virt, pure |-> pure]

SrcFile == <<"/", "s", "/", "a">>
UsrFile == <<"/", "u", "/", "x">>
NoFile  == <<>>

BaseDecl ==
  <<D("TRANSLATION_UNIT", <<"a">>, <<"a">>, None, SrcFile, FALSE, FALSE),    \* 1
    D("NAMESPACE", <<"n">>, <<"n">>, 1, SrcFile, FALSE, FALSE),               \* 2  n
    D("NAMESPACE", <<"z">>, <<"z">>, 1, SrcFile, FALSE, FALSE),               \* 3  z
    D("FUNCTION_DECL", <<"m">>, <<"m">> \o Parens, 1, SrcFile, FALSE, FALSE), \* 4  m()
    D("FUNCTION_DECL", <<"h">>, <<"h">> \o Parens, 1, SrcFile, FALSE, FALSE), \* 5  h()
    D("FUNCTION_DECL", <<"h">>, <<"h", "(", "i", ")">>, 2, SrcFile, FALSE, FALSE), \* 6 n::h(i)
    D("FUNCTION_DECL", <<"p">>, <<"p">> \o Parens, 1, UsrFile, FALSE, FALSE), \* 7  p() under /u
    D("FUNCTION_DECL", <<"s">>, <<"s">> \o Parens, 3, NoFile, FALSE, FALSE),  \* 8  z::s(), no file
    D("FUNCTION_DECL", <<"q">>, <<"q">> \o Parens, 3, SrcFile, FALSE, FALSE), \* 9  z::q()
    D("FUNCTION_DECL", <<"h">>, <<"h">> \o Parens, 1, SrcFile, FALSE, FALSE), \* 10 h(), other unit
    D("FUNCTION_DECL", <<"a">>, <<"a">> \o Parens, 1, SrcFile, FALSE, FALSE), \* 11 a()
    D("FUNCTION_DECL", <<"b">>, <<"b">> \o Parens, 1, SrcFile, FALSE, FALSE), \* 12 b()
    D("FUNCTION_DECL", <<"r">>, <<"r">> \o Parens, 1, SrcFile, FALSE, FALSE), \* 13 r()
    D("FUNCTION_TEMPLATE", <<"t">>, <<"t">> \o Parens, 1, SrcFile, FALSE, FALSE), \* 14 t()
    D("CXX_METHOD", <<"v">>, <<"v">> \o Parens, 16, SrcFile, TRUE, FALSE),    \* 15 k::v() virtual
    D("CLASS_DECL", <<"k">>, <<"k">>, 1, SrcFile, FALSE, FALSE),              \* 16 k
    D("CXX_METHOD", <<"w">>, <<"w">> \o Parens, 16, SrcFile, TRUE, TRUE),     \* 17 k::w() = 0
    D("FUNCTION_DECL", <<"p">>, <<"p">> \o Parens, 1, NoFile, FALSE, FALSE),  \* 18 p(), no file
    D("FUNCTION_DECL", <<"s">>, <<"s">> \o Parens, 3, UsrFile, FALSE, FALSE), \* 19 z::s() under /u
    D("CXX_METHOD", <<"v">>, <<"v">> \o Parens, 16, SrcFile, TRUE, FALSE)     \* 20 k::v(), other unit
  >>

ChainDecl(i) ==
  D("FUNCTION_DECL", <<"c", Chr[i]>>, <<"c", Chr[i]>> \o Parens, 1, SrcFile, FALSE, FALSE)

FirstChain == Len(BaseDecl) + 1

NumDecl == FirstChain + ChainLen - 1

Cursors == 1..NumDecl

Declarations ==
  [c \in Cursors |-> IF c < FirstChain THEN BaseDecl[c] ELSE ChainDecl(c - FirstChain + 1)]

\* the fields of cursor c
Decl(c) == decl[c]

----------------------------------------------------------------------------
(* Symbol naming *)

RECURSIVE fully_qualified(_)
fully_qualified(c) ==
  IF c = None THEN <<>>
  ELSE IF Decl(c).kind = "TRANSLATION_UNIT" THEN <<>>
  ELSE LET res == fully_qualified(Decl(c).semantic_parent)
       IN  IF res # <<>> THEN res \o Colons \o Decl(c).spelling
           ELSE Decl(c).spelling

fully_qualified_pretty(c) ==
  IF c = None THEN <<>>
  ELSE IF Decl(c).kind = "TRANSLATION_UNIT" THEN <<>>
  ELSE LET res == fully_qualified(Decl(c).semantic_parent)
       IN  IF res # <<>> THEN res \o Colons \o Decl(c).displayname
           ELSE Decl(c).displayname

VirtualSuffix == <<" ", "v", "i", "r", "t", "u", "a", "l">>
PureSuffix    == <<" ", "=", " ", "0">>

pretty_print(n) ==
  LET v1 == IF Decl(n).virtual THEN VirtualSuffix ELSE <<>>
      v  == IF Decl(n).pure THEN PureSuffix ELSE v1
  IN  fully_qualified_pretty(n) \o v

----------------------------------------------------------------------------
(* Exclusion policy.  xfiles and xprefs are lists of strings. *)

is_excluded(node, xfiles, xprefs) ==
  IF Decl(node).file = NoFile THEN FALSE
  ELSE IF \E i \in 1..Len(xfiles) : startswith(Decl(node).file, xfiles[i]) THEN TRUE
  ELSE LET fqp == fully_qualified_pretty(node)
       IN  \E i \in 1..Len(xprefs) : startswith(fqp, xprefs[i])

----------------------------------------------------------------------------
(* Graph store.  CALLGRAPH, REFGRAPH and FULLNAMES are defaultdicts: a      *)
(* function whose domain is the set of keys created so far.                 *)

EmptyStore == [cg |-> <<>>, rg |-> <<>>, fn |-> <<>>]

\* d[k] of a defaultdict(list): the value, or the default
Get(d, k, default) == IF k \in DOMAIN d THEN d[k] ELSE default

\* d[k] = v
Put(d, k, v) == (k :> v) @@ d

\* FULLNAMES[fully_qualified(cur_fun)].add(fully_qualified_pretty(cur_fun))
register(G, cur_fun) ==
  LET k == fully_qualified(cur_fun)
  IN  [G EXCEPT !.fn = Put(G.fn, k, Get(G.fn, k, {}) \cup {fully_qualified_pretty(cur_fun)})]

\* the reference edge appended without the membership test
add_reference_dup(rg, ref_pretty, cur_pretty) ==
  Put(rg, ref_pretty, Append(Get(rg, ref_pretty, <<>>), cur_pretty))

\* if cur_pretty not in REFGRAPH[ref_pretty]: REFGRAPH[ref_pretty].append(cur_pretty)
add_reference(rg, ref_pretty, cur_pretty) ==
  LET l == Get(rg, ref_pretty, <<>>)
  IN  IF cur_pretty \in SeqToSet(l) THEN Put(rg, ref_pretty, l)
      ELSE Put(rg, ref_pretty, Append(l, cur_pretty))

\* CALLGRAPH[cur_pretty].append(node.referenced)
add_call(cg, cur_pretty, referenced) ==
  Put(cg, cur_pretty, Append(Get(cg, cur_pretty, <<>>), referenced))

(* Syntax tree nodes: kind, the cursor of the node when it is a declaration, *)
(* node.referenced (None when the call is unresolved), and the children.    *)
Node(kind, cursor, referenced, children) ==
  [kind |-> kind, cursor |-> cursor, referenced |-> referenced, children |-> children]

\* a function definition that is not excluded becomes the current function
enters(node, xfiles, xprefs) ==
  /\ node.kind \in {"FUNCTION_TEMPLATE", "CXX_METHOD", "FUNCTION_DECL"}
  /\ ~is_excluded(node.cursor, xfiles, xprefs)

\* the function that is current below this node
enter_fun(node, xfiles, xprefs, cur_fun) ==
  IF enters(node, xfiles, xprefs) THEN node.cursor ELSE cur_fun

\* a call expression with a resolved target that is not excluded
is_call(node, xfiles, xprefs) ==
  /\ node.kind = "CALL_EXPR"
  /\ node.referenced # None
  /\ ~is_excluded(node.referenced, xfiles, xprefs)

\* the two edges of one call site
add_edges(G, ref_pretty, cur_pretty, referenced) ==
  [G EXCEPT !.rg = add_reference(G.rg, ref_pretty, cur_pretty),
            !.cg = add_call(G.cg, cur_pretty, referenced)]

record_call(G, node, xfiles, xprefs, cur_fun) ==
  IF is_call(node, xfiles, xprefs)
  THEN add_edges(G, fully_qualified_pretty(node.referenced),
                 fully_qualified_pretty(cur_fun), node.referenced)
  ELSE G

declare(G, node, xfiles, xprefs) ==
  IF enters(node, xfiles, xprefs) THEN register(G, node.cursor) ELSE G

\* what show_info does at the node itself, before it visits the children
visit(G, node, xfiles, xprefs, cur_fun) ==
  record_call(declare(G, node, xfiles, xprefs), node, xfiles, xprefs,
              enter_fun(node, xfiles, xprefs, cur_fun))

(* The store, the node and the current function are bound through one-      *)
(* element sets: each is evaluated once and then passed on as a value.       *)
RECURSIVE show_info(_, _, _, _, _), show_children(_, _, _, _, _, _)
show_info(G, node, xfiles, xprefs, cur_fun) ==
  CHOOSE R \in { show_children(G2, n.children, 1, xfiles, xprefs, f)
                   : G2 \in {visit(G, node, xfiles, xprefs, cur_fun)},
                     n \in {node},
                     f \in {enter_fun(node, xfiles, xprefs, cur_fun)} } : TRUE

\* for c in node.get_children(): show_info(c, xfiles, xprefs, cur_fun)
show_children(G, children, i, xfiles, xprefs, cur_fun) ==
  IF i > Len(children) THEN G
  ELSE CHOOSE R \in { show_children(G1, children, i + 1, xfiles, xprefs, cur_fun)
                        : G1 \in {show_info(G, children[i], xfiles, xprefs, cur_fun)} } : TRUE

\* the body of the try statement for one compile command; the severity of the
\* diagnostics is only printed
analyze_one_abort(G, tu, sev, xfiles, xprefs) ==
  IF sev \in {"raised", "Error", "Fatal"} THEN G
  ELSE show_info(G, tu, xfiles, xprefs, None)

analyze_one(G, tu, sev, xfiles, xprefs) ==
  IF sev = "raised" THEN G
  ELSE show_info(G, tu, xfiles, xprefs, None)

----------------------------------------------------------------------------
(* analyze_source_files: one step per compile command *)

\* cfg['excluded_paths'] (the default is ['/usr']) and cfg['excluded_prefixes']
ExcludedPaths    == << <<"/", "u">> >>
ExcludedPrefixes == << <<"z", ":", ":">> >>

CallExpr(g, args) == Node("CALL_EXPR", None, g, args)
Compound(body)    == Node("COMPOUND_STMT", None, None, body)
FunDecl(f, body)  == Node(Decl(f).kind, f, None, <<Compound(body)>>)
Unit(children)    == Node("TRANSLATION_UNIT", 1, None, children)

AggCallers == {4, 6, 9}

\* function bodies: no call, one call, the same callee twice, two cursors of
\* the same function in both orders, a target under an excluded path, an
\* unresolved call, a call among the arguments of a call, a target with no file
AggBodies ==
  { <<>>,
    <<CallExpr(5, <<>>)>>,
    <<CallExpr(5, <<>>), CallExpr(5, <<>>)>>,
    <<CallExpr(5, <<>>), CallExpr(10, <<>>)>>,
    <<CallExpr(10, <<>>), CallExpr(6, <<>>)>>,
    <<CallExpr(7, <<>>), CallExpr(6, <<>>)>>,
    <<CallExpr(None, <<>>), CallExpr(5, <<>>)>>,
    <<CallExpr(6, <<CallExpr(5, <<>>)>>)>>,
    <<CallExpr(8, <<>>)>> }

AggUnits ==
  {Unit(<<FunDecl(f, b)>>) : f \in AggCallers \ {6}, b \in AggBodies}
    \cup {Unit(<<Node("NAMESPACE", 2, None, <<FunDecl(6, b)>>)>>) : b \in AggBodies}

Severities == {"none", "Error", "Fatal"}

\* the call sites of a tree that name a resolved, visible target, in source
\* order, each with the name of the enclosing visible function
site_here(node, cur) ==
  IF /\ node.kind = "CALL_EXPR"
     /\ node.referenced # None
     /\ ~is_excluded(node.referenced, ExcludedPaths, ExcludedPrefixes)
  THEN << <<fully_qualified_pretty(cur), node.referenced>> >>
  ELSE <<>>

RECURSIVE SitesOf(_, _), SitesBelow(_, _, _)
SitesOf(node, cur) ==
  CHOOSE R \in { site_here(n, c) \o SitesBelow(n.children, 1, c)
                   : n \in {node},
                     c \in {enter_fun(node, ExcludedPaths, ExcludedPrefixes, cur)} } : TRUE

SitesBelow(children, i, cur) ==
  IF i > Len(children) THEN <<>>
  ELSE SitesOf(children[i], cur) \o SitesBelow(children, i + 1, cur)

NoCmd == [op |-> "none", args |-> <<>>]

Store == [cg |-> CALLGRAPH, rg |-> REFGRAPH, fn |-> FULLNAMES]

IdleRun ==
  /\ g_buffer = <<>> /\ mode = "none" /\ stack = <<>> /\ so_far = <<>>
  /\ call_stack = <<>> /\ out = <<>> /\ status = "none" /\ expanded = <<>>
  /\ rendered = <<>> /\ deepest = 0 /\ skipped = {}
  /\ cmd = NoCmd /\ blocks = <<>> /\ explored = <<>>

InitCfg ==
  /\ g_print_depth = DefaultPrintDepth
  /\ g_filter_set = {}
  /\ g_ignore_set = {}

NoExcl == [node |-> None, xfiles |-> <<>>, xprefs |-> <<>>, result |-> FALSE]

InitAgg ==
  /\ decl = Declarations
  /\ excl = NoExcl
  /\ CALLGRAPH = <<>> /\ REFGRAPH = <<>> /\ FULLNAMES = <<>>
  /\ nfiles = 0 /\ diag = "none" /\ sites = <<>> /\ added = 0
  /\ pc = "analyze"
  /\ InitCfg
  /\ IdleRun

AnalyzeFile(tu, sev) ==
  /\ pc = "analyze"
  /\ nfiles < MaxFiles
  /\ LET G == analyze_one(Store, tu, sev, ExcludedPaths, ExcludedPrefixes)
         new == IF sev = "raised" THEN <<>> ELSE SitesOf(tu, None)
     IN  /\ CALLGRAPH' = G.cg
         /\ REFGRAPH' = G.rg
         /\ FULLNAMES' = G.fn
         /\ sites' = sites \o new
         /\ added' = Len(new)
  /\ nfiles' = nfiles + 1
  /\ diag' = sev
  /\ UNCHANGED <<pc, cfgVars, runVars, excl, decl>>

NextAgg ==
  \/ \E tu \in AggUnits, sev \in Severities : AnalyzeFile(tu, sev)
  \/ \E tu \in AggUnits : AnalyzeFile(tu, "raised")

SpecAgg == InitAgg /\ [][NextAgg]_vars

----------------------------------------------------------------------------
(* Aggregation: call edges and reference edges *)

CallsFrom(X) ==
  LET FromX(s) == s[1] = X
      sel == SelectSeq(sites, FromX)
  IN  [i \in 1..Len(sel) |-> sel[i][2]]

CallersOf(Y) == {sites[i][1] : i \in {j \in 1..Len(sites) : fully_qualified_pretty(sites[j][2]) = Y}}

NoDuplicates(l) == \A i, j \in 1..Len(l) : l[i] = l[j] => i = j

\* C2: the call-graph list of X holds one entry per recorded call site of X, in
\* the order the sites were recorded (N identical sites give N entries); the
\* reference list of Y holds each caller of Y exactly once, and no reference
\* list holds a caller twice.
C2_CallEdgesKeptReferenceEdgesUnique ==
  /\ \A i \in 1..Len(sites) : /\ sites[i][1] \in DOMAIN CALLGRAPH
                              /\ fully_qualified_pretty(sites[i][2]) \in DOMAIN REFGRAPH
  /\ \A X \in DOMAIN CALLGRAPH : CALLGRAPH[X] = CallsFrom(X)
  /\ \A Y \in DOMAIN REFGRAPH : /\ NoDuplicates(REFGRAPH[Y])
                                /\ SeqToSet(REFGRAPH[Y]) = CallersOf(Y)

\* a caller with the same callee recorded twice, and listed once as its caller
C2_Witness ==
  \E X \in DOMAIN CALLGRAPH :
    \E i, j \in 1..Len(CALLGRAPH[X]) :
      /\ i < j
      /\ CALLGRAPH[X][i] = CALLGRAPH[X][j]
      /\ LET Y == fully_qualified_pretty(CALLGRAPH[X][i])
         IN  Cardinality({k \in 1..Len(REFGRAPH[Y]) : REFGRAPH[Y][k] = X}) = 1

IsPrefix(a, b) == Len(a) <= Len(b) /\ SubSeq(b, 1, Len(a)) = a

\* the sites recorded by the file analysed in this step, seen from its end
LastSites == SubSeq(sites', Len(sites') - added' + 1, Len(sites'))

LastCallsFrom(X) ==
  LET FromX(s) == s[1] = X
      sel == SelectSeq(LastSites, FromX)
  IN  [i \in 1..Len(sel) |-> sel[i][2]]

Analysed == nfiles' = nfiles + 1

----------------------------------------------------------------------------
(* The exclusion policy on its own: is_excluded applied to every function   *)
(* cursor under lists of path prefixes and name prefixes.                   *)

PathPrefixes == { <<"/", "u">>, <<"/", "s", "/", "b">> }
NamePrefixes == { <<"z", ":", ":">>, <<"h", "(", ")">> }

PrefixLists(S) == {<<>>} \cup {<<x>> : x \in S} \cup {<<x, y>> : x \in S, y \in S}

ExclNodes == {c \in 1..Len(BaseDecl) :
                Decl(c).kind \in {"FUNCTION_TEMPLATE", "CXX_METHOD", "FUNCTION_DECL"}}

CheckExcluded(node, xfiles, xprefs) ==
  /\ excl' = [node |-> node, xfiles |-> xfiles, xprefs |-> xprefs,
              result |-> is_excluded(node, xfiles, xprefs)]
  /\ UNCHANGED <<storeVars, aggVars, cfgVars, runVars, pc, decl>>

NextExcl ==
  \E node \in ExclNodes, xf \in PrefixLists(PathPrefixes), xp \in PrefixLists(NamePrefixes) :
    CheckExcluded(node, xf, xp)

SpecExcl == InitAgg /\ [][NextExcl]_vars

PathExcluded(node, xfiles) ==
  /\ Decl(node).file # NoFile
  /\ \E i \in 1..Len(xfiles) : startswith(Decl(node).file, xfiles[i])

NameExcluded(node, xprefs) ==
  \E i \in 1..Len(xprefs) : startswith(fully_qualified_pretty(node), xprefs[i])

\* C10: is_excluded returns true exactly when the declaring file starts with a
\* path prefix or the display name starts with a name prefix; a node with no
\* file is exempt from the path rule only.
C10_Original ==
  excl.node # None =>
    (excl.result <=> (PathExcluded(excl.node, excl.xfiles) \/ NameExcluded(excl.node, excl.xprefs)))

----------------------------------------------------------------------------
(* The output buffer.  A line is a record: its kind, its indentation depth  *)
(* ('|  ' * depth + '|--') and its text; colouring is left out.             *)

Line(kind, depth, text) == [kind |-> kind, depth |-> depth, text |-> text]

Marker   == Line("marker", 0, <<>>)                    \* '...<too deep>...'
Blank    == Line("print", 0, <<>>)                     \* print('')
Header   == Line("print", 0, <<"m", "a", "t", "c", "h">>) \* print('matching list:')
Total(n) == Line("total", n, <<>>)                     \* '[total lines: n]'

buffer_append(buf, msg) == Append(buf, msg)

buffer_clear_keep(buf) == buf

buffer_clear(buf) == <<>>

\* what buffer_flush prints; g_buffer is empty afterwards
buffer_flush(buf, need_len_info) ==
  IF need_len_info THEN buffer_append(buf, Total(Len(buf))) ELSE buf

----------------------------------------------------------------------------
(* The traversals, one loop iteration per step.  An activation record holds *)
(* the key, the index of the next list entry (0 before the depth checks),   *)
(* the depth, and the callee through which the call was made.               *)

Frame(fun, depth, via) == [fun |-> fun, i |-> 0, depth |-> depth, via |-> via]

Top == stack[Len(stack)]

Adj == IF mode = "refs" THEN REFGRAPH ELSE CALLGRAPH

Max(a, b) == IF a >= b THEN a ELSE b

\* the two tests at the head of each traversal function
depth_check(depth) ==
  IF depth >= g_print_depth THEN "return"
  ELSE IF depth >= MaxPrintDepth THEN "marker"
  ELSE "go"

\* the key the recursive call is made with
callee_key(f) ==
  IF fully_qualified_pretty(f) \in DOMAIN CALLGRAPH THEN fully_qualified_pretty(f)
  ELSE fully_qualified(f)

\* for kw in keywords: if kw in f.displayname
hit(keywords, f) == \E kw \in keywords : contains(Decl(f).displayname, kw)

ignore_hit_never(keywords, f) == FALSE

ignore_hit(keywords, f) == hit(keywords, f)

edge_line(depth, f) == Line("edge", depth, pretty_print(f))

\* the flush of the path stack in filter_calls, only its last line
filter_flush_last(buf, cs, keywords, f) ==
  IF hit(keywords, f) THEN Append(buf, cs[Len(cs)]) ELSE buf

\* for kw in g_filter_set: if kw in f.displayname: append every line; break
filter_flush(buf, cs, keywords, f) ==
  IF hit(keywords, f) THEN buf \o cs ELSE buf

\* the rendered edges from the root down to callee f of the top activation
PathTo(f) ==
  [j \in 1..Len(stack) |->
     IF j = Len(stack) THEN edge_line(stack[j].depth, f)
     ELSE edge_line(stack[j].depth, CALLGRAPH[stack[j].fun][stack[j].i - 1])]

Running == pc = "run" /\ stack # <<>>

travFixed == <<storeVars, aggVars, cfgVars, pc, mode, out, status, excl, cmd, decl>>

\* return from the top activation; filter_calls pops the path stack after the call
PopFrame ==
  /\ stack' = Front(stack)
  /\ call_stack' = IF mode = "filter" /\ Len(stack) > 1 THEN Front(call_stack)
                   ELSE call_stack

TraverseEnter ==
  /\ Running
  /\ Top.i = 0
  /\ deepest' = Max(deepest, Top.depth)
  /\ LET c == depth_check(Top.depth)
     IN  \/ /\ c = "return"
            /\ PopFrame
            /\ UNCHANGED <<g_buffer, rendered, expanded>>
         \/ /\ c = "marker"
            /\ g_buffer' = buffer_append(g_buffer, Marker)
            /\ rendered' = Append(rendered, Marker)
            /\ PopFrame
            /\ UNCHANGED expanded
         \/ /\ c = "go"
            /\ Top.fun \in DOMAIN Adj
            /\ stack' = [stack EXCEPT ![Len(stack)].i = 1]
            /\ expanded' = Append(expanded, Top.fun)
            /\ UNCHANGED <<g_buffer, rendered, call_stack>>
         \/ /\ c = "go"
            /\ Top.fun \notin DOMAIN Adj
            /\ PopFrame
            /\ UNCHANGED <<g_buffer, rendered, expanded>>
  /\ UNCHANGED <<so_far, skipped, blocks, explored, travFixed>>

InLoop == Running /\ Top.i >= 1 /\ Top.i <= Len(Adj[Top.fun])

Advance == [stack EXCEPT ![Len(stack)].i = Top.i + 1]

\* the loop is exhausted: the function returns
TraverseReturn ==
  /\ Running
  /\ Top.i >= 1
  /\ Top.i > Len(Adj[Top.fun])
  /\ PopFrame
  /\ UNCHANGED <<g_buffer, so_far, expanded, rendered, deepest, skipped,
                 blocks, explored, travFixed>>

\* one iteration of the loop of print_calls
StepCalls ==
  /\ InLoop
  /\ mode = "calls"
  /\ LET f == Adj[Top.fun][Top.i]
         line == edge_line(Top.depth, f)
     IN  /\ g_buffer' = buffer_append(g_buffer, line)
         /\ rendered' = Append(rendered, line)
         /\ explored' = Append(explored, <<Top.fun, f>>)
         /\ IF f \in SeqToSet(so_far)
            THEN /\ stack' = Advance
                 /\ UNCHANGED so_far
            ELSE /\ so_far' = Append(so_far, f)
                 /\ stack' = Append(Advance, Frame(callee_key(f), Top.depth + 1, f))
  /\ UNCHANGED <<call_stack, expanded, deepest, skipped, blocks, travFixed>>

\* one iteration of the loop of print_refs
StepRefs ==
  /\ InLoop
  /\ mode = "refs"
  /\ LET f == Adj[Top.fun][Top.i]
         line == Line("edge", Top.depth, f)
     IN  /\ g_buffer' = buffer_append(g_buffer, line)
         /\ rendered' = Append(rendered, line)
         /\ explored' = Append(explored, <<Top.fun, f>>)
         /\ IF f \in SeqToSet(so_far)
            THEN /\ stack' = Advance
                 /\ UNCHANGED so_far
            ELSE /\ so_far' = Append(so_far, f)
                 /\ stack' = IF f \in DOMAIN REFGRAPH
                             THEN Append(Advance, Frame(f, Top.depth + 1, f))
                             ELSE Advance
  /\ UNCHANGED <<call_stack, expanded, deepest, skipped, blocks, travFixed>>

\* one iteration of the loop of filter_calls
StepFilter ==
  /\ InLoop
  /\ mode = "filter"
  /\ LET f == Adj[Top.fun][Top.i]
         line == edge_line(Top.depth, f)
         cs == Append(call_stack, line)
         buf == filter_flush(g_buffer, cs, g_filter_set, f)
     IN  /\ g_buffer' = buf
         /\ rendered' = rendered \o SubSeq(buf, Len(g_buffer) + 1, Len(buf))
         /\ blocks' = IF hit(g_filter_set, f) THEN Append(blocks, PathTo(f)) ELSE blocks
         /\ explored' = Append(explored, <<Top.fun, f>>)
         /\ IF f \in SeqToSet(so_far)
            THEN /\ call_stack' = call_stack
                 /\ stack' = Advance
                 /\ UNCHANGED so_far
            ELSE /\ call_stack' = cs
                 /\ so_far' = Append(so_far, f)
                 /\ stack' = Append(Advance, Frame(callee_key(f), Top.depth + 1, f))
  /\ UNCHANGED <<expanded, deepest, skipped, travFixed>>

\* one iteration of the loop of ignore_calls
StepIgnore ==
  /\ InLoop
  /\ mode = "ignore"
  /\ LET f == Adj[Top.fun][Top.i]
         line == edge_line(Top.depth, f)
     IN  IF ignore_hit(g_ignore_set, f)
         THEN /\ stack' = Advance
              /\ skipped' = skipped \cup {f}
              /\ UNCHANGED <<g_buffer, rendered, so_far, explored>>
         ELSE /\ g_buffer' = buffer_append(g_buffer, line)
              /\ rendered' = Append(rendered, line)
              /\ explored' = Append(explored, <<Top.fun, f>>)
              /\ UNCHANGED skipped
              /\ IF f \in SeqToSet(so_far)
                 THEN /\ stack' = Advance
                      /\ UNCHANGED so_far
                 ELSE /\ so_far' = Append(so_far, f)
                      /\ stack' = Append(Advance, Frame(callee_key(f), Top.depth + 1, f))
  /\ UNCHANGED <<call_stack, expanded, deepest, blocks, travFixed>>

\* the traversal is over: buffer_flush(True), and the loop asks again
Finish ==
  /\ pc = "run"
  /\ stack = <<>>
  /\ out' = out \o buffer_flush(g_buffer, TRUE)
  /\ g_buffer' = <<>>
  /\ status' = "ok"
  /\ pc' = "ask"
  /\ UNCHANGED <<storeVars, aggVars, cfgVars, mode, stack, so_far, call_stack,
                 expanded, rendered, deepest, skipped, excl, cmd, blocks, explored, decl>>

\* an exception while the query runs: except Exception: buffer_clear()
Fault ==
  /\ Running
  /\ g_buffer' = buffer_clear(g_buffer)
  /\ status' = "fault"
  /\ pc' = "ask"
  /\ stack' = <<>>
  /\ UNCHANGED <<storeVars, aggVars, cfgVars, mode, so_far, call_stack, out,
                 expanded, rendered, deepest, skipped, excl, cmd, blocks, explored, decl>>

----------------------------------------------------------------------------
(* ask_and_print_callgraph: one action per command *)

Keywords == { <<"h">>, <<"v">> }

KeywordLists == SeqsUpTo(Keywords, MaxArgs)

DepthArgs == {-1, 0, 1, 2, 14, 15, 16}

LastChain == <<"c", Chr[ChainLen]>> \o Parens

QueryNames ==
  { <<"a">> \o Parens, <<"r">> \o Parens, <<"m">> \o Parens, <<"h">> \o Parens,
    <<"k", ":", ":", "v">> \o Parens, <<"c", "a">> \o Parens, LastChain,
    <<"k">>, <<"x">> }

Perms(S) == {p \in [1..Cardinality(S) -> S] : \A i, j \in 1..Cardinality(S) : p[i] = p[j] => i = j}

\* what every command starts from: the locals of the previous one are gone
Fresh(m, c) ==
  /\ mode' = m
  /\ cmd' = c
  /\ so_far' = <<>>
  /\ call_stack' = <<>>
  /\ expanded' = <<>>
  /\ deepest' = 0
  /\ skipped' = {}
  /\ blocks' = <<>>
  /\ explored' = <<>>

askFixed == <<storeVars, aggVars, excl, decl>>

\* a command that runs no query
Settled(c, st) ==
  /\ Fresh("none", c)
  /\ status' = st
  /\ rendered' = <<>>
  /\ out' = <<>>
  /\ UNCHANGED <<pc, stack, askFixed>>

\* an empty line, or '@' alone (the usage is printed)
CmdNothing ==
  /\ pc = "ask"
  /\ Settled([op |-> "usage", args |-> <<>>], "ok")
  /\ UNCHANGED <<cfgVars, g_buffer>>

CmdReset ==
  /\ pc = "ask"
  /\ g_filter_set' = {}
  /\ g_ignore_set' = {}
  /\ g_print_depth' = MaxPrintDepth
  /\ Settled([op |-> "reset", args |-> <<>>], "ok")
  /\ UNCHANGED g_buffer

CmdShow ==
  /\ pc = "ask"
  /\ Settled([op |-> "show", args |-> <<>>], "ok")
  /\ UNCHANGED <<cfgVars, g_buffer>>

CmdFilter(kws) ==
  /\ pc = "ask"
  /\ g_filter_set' = g_filter_set \cup SeqToSet(kws)
  /\ Settled([op |-> "filter", args |-> kws], "ok")
  /\ UNCHANGED <<g_ignore_set, g_print_depth, g_buffer>>

CmdIgnore(kws) ==
  /\ pc = "ask"
  /\ g_ignore_set' = g_ignore_set \cup SeqToSet(kws)
  /\ Settled([op |-> "ignore", args |-> kws], "ok")
  /\ UNCHANGED <<g_filter_set, g_print_depth, g_buffer>>

depth_rejected_low_only(depth) == depth <= 0

\* if depth <= 0 or depth >= g_max_print_depth
depth_rejected(depth) == depth <= 0 \/ depth >= MaxPrintDepth

CmdDepth(n) ==
  /\ pc = "ask"
  /\ IF depth_rejected(n)
     THEN /\ Settled([op |-> "depth", args |-> <<n>>], "rejected")
          /\ UNCHANGED g_print_depth
     ELSE /\ Settled([op |-> "depth", args |-> <<n>>], "ok")
          /\ g_print_depth' = n
  /\ UNCHANGED <<g_filter_set, g_ignore_set, g_buffer>>

\* '@ depth' with no argument or with one that is no integer: args[2] or int() raises
CmdDepthBad ==
  /\ pc = "ask"
  /\ Settled([op |-> "depth", args |-> <<>>], "fault")
  /\ g_buffer' = buffer_clear(g_buffer)
  /\ UNCHANGED cfgVars

\* for kw in args[2:]: set.remove(kw), which raises KeyError on an absent keyword
RECURSIVE remove_all(_, _)
remove_all(set, kws) ==
  IF kws = <<>> THEN [set |-> set, raised |-> FALSE]
  ELSE IF kws[1] \notin set THEN [set |-> set, raised |-> TRUE]
  ELSE remove_all(set \ {kws[1]}, Tail(kws))

CmdDelFi(kws) ==
  /\ pc = "ask"
  /\ LET r == remove_all(g_filter_set, kws)
     IN  /\ g_filter_set' = r.set
         /\ IF r.raised
            THEN /\ Settled([op |-> "del_fi", args |-> kws], "fault")
                 /\ g_buffer' = buffer_clear(g_buffer)
            ELSE /\ Settled([op |-> "del_fi", args |-> kws], "ok")
                 /\ UNCHANGED g_buffer
  /\ UNCHANGED <<g_ignore_set, g_print_depth>>

CmdDelIg(kws) ==
  /\ pc = "ask"
  /\ LET r == remove_all(g_ignore_set, kws)
     IN  /\ g_ignore_set' = r.set
         /\ IF r.raised
            THEN /\ Settled([op |-> "del_ig", args |-> kws], "fault")
                 /\ g_buffer' = buffer_clear(g_buffer)
            ELSE /\ Settled([op |-> "del_ig", args |-> kws], "ok")
                 /\ UNCHANGED g_buffer
  /\ UNCHANGED <<g_filter_set, g_print_depth>>

\* '?', '!' or '&' with nothing after it: args[1] raises IndexError
QueryNoName(op) ==
  /\ pc = "ask"
  /\ Settled([op |-> op, args |-> <<>>], "fault")
  /\ g_buffer' = buffer_clear(g_buffer)
  /\ UNCHANGED cfgVars

\* the start of print_filter_callgraph, print_ignore_callgraph and print_refgraph
StartQuery(op, m, fun) ==
  /\ pc = "ask"
  /\ Fresh(m, [op |-> op, args |-> <<fun>>])
  /\ out' = <<Blank>>
  /\ status' = "running"
  /\ pc' = "run"
  /\ LET G == IF m = "refs" THEN REFGRAPH ELSE CALLGRAPH
         root == Line("root", 0, fun)
     IN  IF fun \in DOMAIN G
         THEN /\ g_buffer' = buffer_append(g_buffer, root)
              /\ rendered' = <<root>>
              /\ stack' = <<Frame(fun, 0, None)>>
         ELSE /\ stack' = <<>>
              /\ rendered' = <<>>
              /\ UNCHANGED g_buffer
  /\ UNCHANGED <<cfgVars, askFixed>>

QueryFilter(fun) == StartQuery("?", "filter", fun)
QueryIgnore(fun) == StartQuery("!", "ignore", fun)
QueryRefs(fun)   == StartQuery("&", "refs", fun)

\* print_callgraph: the traversal, or the list of the names the prefix matches
QueryDirect(fun) ==
  /\ pc = "ask"
  /\ Fresh("calls", [op |-> "direct", args |-> <<fun>>])
  /\ status' = "running"
  /\ pc' = "run"
  /\ IF fun \in DOMAIN CALLGRAPH
     THEN /\ out' = <<Blank>>
          /\ g_buffer' = buffer_append(g_buffer, Line("root", 0, fun))
          /\ rendered' = <<Line("root", 0, fun)>>
          /\ stack' = <<Frame(fun, 0, None)>>
     ELSE LET found == UNION {FULLNAMES[f] : f \in {k \in DOMAIN FULLNAMES : startswith(k, fun)}}
          IN  \E order \in Perms(found) :
                LET lines == [i \in 1..Len(order) |-> Line("match", 0, order[i])]
                IN  /\ out' = <<Blank, Header>>
                    /\ g_buffer' = g_buffer \o lines
                    /\ rendered' = lines
                    /\ stack' = <<>>
  /\ UNCHANGED <<cfgVars, askFixed>>

----------------------------------------------------------------------------
(* The program the queries run on: a cycle a <-> b and a self call r -> r;  *)
(* m -> h, n::h(i) with h -> k::v and, in another unit, n::h(i) -> h, k::v,  *)
(* t; a chain c_a -> c_b -> ... of ChainLen functions.                       *)

Call(g) == CallExpr(g, <<>>)

ChainUnit ==
  Unit([i \in 1..ChainLen |->
          FunDecl(FirstChain + i - 1,
                  IF i < ChainLen THEN <<Call(FirstChain + i)>> ELSE <<>>)])

ReplUnits ==
  << Unit(<<FunDecl(11, <<Call(12)>>), FunDecl(12, <<Call(11)>>), FunDecl(13, <<Call(13)>>)>>),
     Unit(<<FunDecl(4, <<Call(5), Call(6)>>),
            FunDecl(5, <<Call(15)>>),
            Node("CLASS_DECL", 16, None, <<FunDecl(15, <<Call(17)>>), FunDecl(17, <<>>)>>)>>),
     Unit(<<Node("NAMESPACE", 2, None, <<FunDecl(6, <<Call(10), Call(20), Call(14)>>)>>)>>),
     ChainUnit >>

RECURSIVE analyze_all(_, _)
analyze_all(G, units) ==
  IF units = <<>> THEN G
  ELSE CHOOSE R \in { analyze_all(G1, Tail(units))
                        : G1 \in {analyze_one(G, units[1], "none", ExcludedPaths, ExcludedPrefixes)} } : TRUE

Init ==
  /\ decl = Declarations
  /\ LET G == analyze_all(EmptyStore, ReplUnits)
     IN  /\ CALLGRAPH = G.cg
         /\ REFGRAPH = G.rg
         /\ FULLNAMES = G.fn
  /\ nfiles = Len(ReplUnits) /\ diag = "none" /\ sites = <<>> /\ added = 0
  /\ excl = NoExcl
  /\ pc = "ask"
  /\ InitCfg
  /\ IdleRun

Next ==
  \/ CmdNothing
  \/ CmdReset
  \/ CmdShow
  \/ \E kws \in KeywordLists : CmdFilter(kws)
  \/ \E kws \in KeywordLists : CmdIgnore(kws)
  \/ \E n \in DepthArgs : CmdDepth(n)
  \/ CmdDepthBad
  \/ \E kws \in KeywordLists : CmdDelFi(kws)
  \/ \E kws \in KeywordLists : CmdDelIg(kws)
  \/ \E op \in {"?", "!", "&"} : QueryNoName(op)
  \/ \E fun \in QueryNames : QueryFilter(fun)
  \/ \E fun \in QueryNames : QueryIgnore(fun)
  \/ \E fun \in QueryNames : QueryRefs(fun)
  \/ \E fun \in QueryNames : QueryDirect(fun)
  \/ TraverseEnter
  \/ TraverseReturn
  \/ StepCalls
  \/ StepRefs
  \/ StepFilter
  \/ StepIgnore
  \/ Finish
  \/ Fault

Spec == Init /\ [][Next]_vars

----------------------------------------------------------------------------
(* Direct query: expansion of keys *)

\* C1 as stated: within one Direct query every key, the query root included,
\* has its callee list expanded at most once.
C1_Original ==
  mode = "calls" => NoDuplicates(expanded)

----------------------------------------------------------------------------
(* WithoutKeywords query *)

IgnoreQuery == mode = "ignore" /\ cmd.args # <<>>

\* C3 as stated: for every node whose display name contains an ignore keyword
\* no line is emitted (neither the root line nor an edge line), its callee list
\* is never expanded, and it is not in the visited list.
C3_Original ==
  IgnoreQuery =>
    \A c \in Cursors :
      hit(g_ignore_set, c) =>
        /\ \A i \in 1..Len(rendered) :
             /\ rendered[i].kind = "root" => rendered[i].text # fully_qualified_pretty(c)
             /\ rendered[i].kind = "edge" => rendered[i].text # pretty_print(c)
        /\ fully_qualified_pretty(c) \notin SeqToSet(expanded)
        /\ c \notin SeqToSet(so_far)

\* C3 as amended: every callee met by ignore_calls whose displayname contains
\* an ignore keyword is skipped: no edge line is rendered for it, no call of
\* ignore_calls is made through it, and it is not added to so_far.  Every
\* rendered edge line is the line of a callee that matches no keyword.
C3_MatchingCalleesSkipped ==
  IgnoreQuery =>
    /\ \A i \in 1..Len(so_far) : ~hit(g_ignore_set, so_far[i])
    /\ \A j \in 1..Len(stack) : stack[j].via # None => ~hit(g_ignore_set, stack[j].via)
    /\ \A f \in skipped : hit(g_ignore_set, f) /\ f \notin SeqToSet(so_far)
    /\ Len(rendered) = Len(explored) + (IF cmd.args[1] \in DOMAIN CALLGRAPH THEN 1 ELSE 0)
    /\ \A i \in 1..Len(explored) :
         /\ ~hit(g_ignore_set, explored[i][2])
         /\ rendered[i + 1] = Line("edge", rendered[i + 1].depth, pretty_print(explored[i][2]))

\* a finished query that skipped a callee which has callees of its own that
\* match no keyword, none of which was reached
C3_Witness ==
  /\ IgnoreQuery
  /\ status = "ok"
  /\ \E f \in skipped :
       /\ callee_key(f) \in DOMAIN CALLGRAPH
       /\ \E i \in 1..Len(CALLGRAPH[callee_key(f)]) :
            LET g == CALLGRAPH[callee_key(f)][i]
            IN  ~hit(g_ignore_set, g) /\ g \notin SeqToSet(so_far)

----------------------------------------------------------------------------
(* FilteredTo query *)

FilterQuery == mode = "filter" /\ cmd.args # <<>>

RootPart ==
  IF cmd.args[1] \in DOMAIN CALLGRAPH THEN <<Line("root", 0, cmd.args[1])>> ELSE <<>>

\* the edges print_calls iterates over from a key, in order, with the visited
\* list: the traversal with no keyword set involved
RECURSIVE calls_from(_, _, _), calls_loop(_, _, _, _)
calls_from(key, depth, acc) ==
  IF depth_check(depth) # "go" \/ key \notin DOMAIN CALLGRAPH THEN acc
  ELSE calls_loop(key, 1, depth, acc)

calls_loop(key, i, depth, acc) ==
  IF i > Len(CALLGRAPH[key]) THEN acc
  ELSE LET f == CALLGRAPH[key][i]
           edges == Append(acc.edges, <<key, f>>)
       IN  IF f \in SeqToSet(acc.so_far)
           THEN calls_loop(key, i + 1, depth, [so_far |-> acc.so_far, edges |-> edges])
           ELSE calls_loop(key, i + 1, depth,
                           calls_from(callee_key(f), depth + 1,
                                      [so_far |-> Append(acc.so_far, f), edges |-> edges]))

Matches == {i \in 1..Len(explored) : hit(g_filter_set, explored[i][2])}

----------------------------------------------------------------------------
(* The soft depth limit *)

\* C5 as stated: the soft limit is always strictly between 0 and the hard limit.
C5_Original ==
  0 < g_print_depth /\ g_print_depth < MaxPrintDepth

DepthCommand == pc = "ask" /\ cmd'.op = "depth" /\ cmd'.args # <<>>

\* C5 as amended: the soft limit is always greater than 0 and at most the hard
\* limit (it equals the hard limit initially and after a reset); a '@ depth n'
\* sets it to n when 0 < n < hard limit, and leaves it as it was when n <= 0
\* or n >= hard limit.
C5_DepthWithinHardLimit ==
  /\ [](0 < g_print_depth /\ g_print_depth <= MaxPrintDepth)
  /\ [][DepthCommand =>
          LET n == cmd'.args[1]
          IN  /\ (n <= 0 \/ n >= MaxPrintDepth) => g_print_depth' = g_print_depth
              /\ (0 < n /\ n < MaxPrintDepth) => g_print_depth' = n]_vars

\* a '@ depth n' with n at or above the hard limit was rejected after the
\* depth had been set to a value of the user's
C5_Witness ==
  /\ cmd.op = "depth"
  /\ cmd.args # <<>>
  /\ status = "rejected"
  /\ cmd.args[1] >= MaxPrintDepth
  /\ g_print_depth < MaxPrintDepth

\* C6 as stated: a traversal whose recursion reaches the hard depth limit
\* renders the '...<too deep>...' marker, and one that stays below it does not.
C6_Original ==
  mode # "none" => (deepest >= MaxPrintDepth <=> Marker \in SeqToSet(rendered))

----------------------------------------------------------------------------
(* The output buffer over the commands *)

Prints(l) == \A i \in 1..Len(l) : l[i].kind = "print"

\* the lines print() wrote directly, before the flush
Direct == IF cmd.op = "direct" /\ cmd.args[1] \notin DOMAIN CALLGRAPH
          THEN <<Blank, Header>> ELSE <<Blank>>

C8_Original ==
  /\ cmd.op = "del_fi" => SeqToSet(cmd.args) \cap g_filter_set = {}
  /\ cmd.op = "del_ig" => SeqToSet(cmd.args) \cap g_ignore_set = {}

====
